---- MODULE Spec2Model ----
(***************************************************************************)
(* Exposure calibration of the peanut imaging box.                         *)
(*                                                                         *)
(* Two programs of the repository hold a calibrate_led routine:            *)
(*   src/main.py         the GUI program (PeanutApp)                       *)
(*   src/calibration.py  the command-line script                           *)
(* The variable prog says which of the two is running; it never changes.   *)
(*                                                                         *)
(* Units.  Region means are floats in [0, 255]; the model holds them in    *)
(* tenths of a grey level (Tenths(180) = 1800), which is fine enough to    *)
(* hit every comparison of the code on both sides and at equality          *)
(* (0.98 * 255 = 249.9 = 2499 tenths).  Exposure times are floats in       *)
(* microseconds; the model holds them on a grid of GridUs microseconds and *)
(* rounds each product down to the grid.                                   *)
(***************************************************************************)
EXTENDS Integers, Sequences, FiniteSets, TLC

\* ------------------------------------------------------------------ bounds
\* Width of one exposure grid step, in microseconds.
GridUs == 1000
\* cam.ExposureTime.GetMin() / GetMax(), in grid steps.
EXP_MIN == 4
EXP_MAX == 24

\* ------------------------------------------------------- program constants
MAX_VAL == 255
TARGET_WHITE == 180
WHITE_TOL == 5
DR_MIN == 30
\* SAT_THRESH = 0.98, held in hundredths.
SAT_THRESH == 98
\* range(itertaions) in main.py, range(12) in calibration.py
itertaions == 5
CALIBRATION_ITERATIONS == 12
\* cam.ExposureTime.SetValue(17800.0) / exp_time_node.SetValue(5000.0)
INIT_EXPOSURE_MAIN == 17800
INIT_EXPOSURE_CALIBRATION == 5000
\* QC thresholds: the patch-noise limits, and the allowed drift in hundredths.
STD_WHITE_MAX == 8
STD_BLACK_MAX == 8
DRIFT_FRAC_MAX == 10

Progs == {"main", "calibration"}

Tenths(x) == 10 * x
Abs(x) == IF x < 0 THEN -x ELSE x
Max(a, b) == IF a >= b THEN a ELSE b
Min(a, b) == IF a <= b THEN a ELSE b

\* The value of a local variable that has not been assigned yet.
Unbound == -1

\* Mutant of MaxIterations: main.py with the budget its comment names
\* ("up to 12 iterations").
MaxIterations_Twelve(p) == CALIBRATION_ITERATIONS

MaxIterations(p) == IF p = "main" THEN itertaions ELSE CALIBRATION_ITERATIONS

InitExposure(p) ==
    IF p = "main" THEN INIT_EXPOSURE_MAIN \div GridUs
    ELSE INIT_EXPOSURE_CALIBRATION \div GridUs

\* ------------------------------------------------------------------- ROIs
\* (x1, y1, x2, y2)
WHITE_ROIS(p) ==
    IF p = "main" THEN << <<348, 950, 500, 1189>>, <<1641, 199, 1836, 462>> >>
    ELSE << <<100, 100, 150, 150>>, <<1000, 100, 1050, 150>> >>

BLACK_ROIS(p) ==
    IF p = "main" THEN << <<333, 195, 511, 436>>, <<1654, 921, 1821, 1173>> >>
    ELSE << <<100, 800, 150, 850>>, <<1000, 800, 1050, 850>> >>

\* img.shape[:2] = (h, w) of the frames the camera delivers.
Shapes == { <<1200, 1920>>, <<1024, 1280>>, <<600, 800>> }

RoiInside(roi, h, w) ==
    /\ 0 <= roi[1] /\ roi[1] < roi[3] /\ roi[3] <= w
    /\ 0 <= roi[2] /\ roi[2] < roi[4] /\ roi[4] <= h

\* TRUE iff validate_rois(img_shape) returns without raising ValueError.
validate_rois(p, shape) ==
    LET rois == WHITE_ROIS(p) \o BLACK_ROIS(p)
    IN  \A i \in 1..Len(rois) : RoiInside(rois[i], shape[1], shape[2])

\* ------------------------------------------------- frames (the environment)
\* The (white mean, black mean) pairs a complete frame can show, in tenths:
\* on, just inside and just outside every threshold of calibrate_led.
Frames == { << Tenths(100), Tenths(20) >>,        \* too dark
            << Tenths(180), Tenths(20) >>,        \* on target
            << Tenths(175), Tenths(20) >>,        \* lower edge of the tolerance
            << Tenths(175) - 1, Tenths(20) >>,    \* just below it
            << Tenths(185), Tenths(155) >>,       \* upper edge, range = DR_MIN
            << Tenths(185), Tenths(155) + 1 >>,   \* upper edge, range too small
            << Tenths(175), Tenths(155) >>,       \* lower edge, range too small
            << Tenths(185) + 1, Tenths(20) >>,    \* just above the tolerance
            << Tenths(250) - 1, Tenths(20) >>,    \* 249.9 = SAT_THRESH * MAX_VAL
            << Tenths(250), Tenths(20) >> }       \* above the saturation limit

\* ----------------------------------------------------- calibrate_led logic
\* Iw < SAT_THRESH * MAX_VAL, Iw > SAT_THRESH * MAX_VAL  (Iw in tenths)
BelowSaturation(Iw) == Iw * 100 < SAT_THRESH * Tenths(MAX_VAL)
AboveSaturation(Iw) == Iw * 100 > SAT_THRESH * Tenths(MAX_VAL)

\* Mutants of TargetReached: the dynamic-range test forgotten; the tolerance
\* test strict.
TargetReached_NoRange(Iw, Ib) ==
    /\ Abs(Iw - Tenths(TARGET_WHITE)) <= Tenths(WHITE_TOL)
    /\ BelowSaturation(Iw)

TargetReached_StrictTol(Iw, Ib) ==
    /\ Abs(Iw - Tenths(TARGET_WHITE)) < Tenths(WHITE_TOL)
    /\ Iw - Ib >= Tenths(DR_MIN)
    /\ BelowSaturation(Iw)

\* "Check if within acceptable calibration range"
TargetReached(Iw, Ib) ==
    /\ Abs(Iw - Tenths(TARGET_WHITE)) <= Tenths(WHITE_TOL)
    /\ Iw - Ib >= Tenths(DR_MIN)
    /\ BelowSaturation(Iw)

\* Mutants of AdjustFactor: main.py without its gentle step; the increase
\* of the else branch turned into a decrease.
AdjustFactor_NoGentle(p, Iw) ==
    IF Iw > Tenths(TARGET_WHITE) \/ AboveSaturation(Iw) THEN 7 ELSE 13

AdjustFactor_DarkDecrease(p, Iw) ==
    IF p = "main"
    THEN IF AboveSaturation(Iw) THEN 7
         ELSE IF Iw > Tenths(TARGET_WHITE) THEN 9
         ELSE 9
    ELSE IF Iw > Tenths(TARGET_WHITE) \/ AboveSaturation(Iw) THEN 7
         ELSE 9

\* "Decide how to tweak exposure": the factor, in tenths.
AdjustFactor(p, Iw) ==
    IF p = "main"
    THEN IF AboveSaturation(Iw) THEN 7
         ELSE IF Iw > Tenths(TARGET_WHITE) THEN 9
         ELSE 13
    ELSE IF Iw > Tenths(TARGET_WHITE) \/ AboveSaturation(Iw) THEN 7
         ELSE 13

\* exp_us *= factor
Scale(exp, factor) == (exp * factor) \div 10

\* Mutant of Clamp: the upper limit forgotten.
Clamp_NoUpper(exp) == Max(EXP_MIN, exp)

\* exp_us = max(EXP_MIN, min(EXP_MAX, exp_us))
Clamp(exp) == Max(EXP_MIN, Min(EXP_MAX, exp))


\* ------------------------------------------------------------------ state
VARIABLES
    prog,                 \* "main" or "calibration"
    frameShape,           \* (h, w) of the frames the camera delivers
    CAM_OK,               \* main.py global
    camExposure,          \* cam.ExposureTime, the camera's exposure setpoint
    driver,               \* driver relay is on
    leds,                 \* leds[i]: relay of LED i is on
    calibration_results,  \* led_id -> baseline, a partial function on 1..3
    start_btn,            \* "disabled" or "normal" (main.py)
    pc,                   \* position of the program
    led_id,               \* the LED calibrate_led was called for
    iteration,            \* loop variable of calibrate_led
    exp_us, Iw, Ib,       \* locals of calibrate_led
    ret,                  \* the triple calibrate_led returned, or << >>
    exc,                  \* the exception calibrate_led raised, or "none"
    run,                  \* what the current run of calibrate_led has done
    last,                 \* what its latest iteration did
    qc,                   \* arguments and result of apply_qc_and_print
    norm,                 \* arguments and result of normalize_with_refs
    stats,                \* arguments and result of roi_stats
    is_capturing,         \* PeanutApp.is_capturing
    capture_thread,       \* where the capture_sequence worker thread is
    stale,                \* LEDs whose baseline predates the latest reconnect
    led_test              \* PeanutApp.led1_on, led2_on, led3_on

vars == << prog, frameShape, CAM_OK, camExposure, driver, leds,
           calibration_results, start_btn, pc, led_id, iteration,
           exp_us, Iw, Ib, ret, exc, run, last, qc, norm, stats,
           is_capturing, capture_thread, stale, led_test >>

\* The state of the helper functions, which the calibration flow leaves alone.
pure == << qc, norm, stats >>
\* The state of the calibration flow, which the helper functions leave alone.
flow == << prog, frameShape, CAM_OK, camExposure, driver, leds,
           calibration_results, start_btn, pc, led_id, iteration,
           exp_us, Iw, Ib, ret, exc, run, last,
           is_capturing, capture_thread, stale, led_test >>
\* The state of the capture worker.
worker == << is_capturing, capture_thread >>

hardware == << driver, leds >>
locals == << iteration, exp_us, Iw, Ib, ret, exc, run, last >>

LedIds == 1..3
AllOff == [i \in LedIds |-> FALSE]
NoResults == << >>

\* No call of a helper function has been made.
NoCall == [ calls |-> 0 ]
\* No capture_sequence thread is alive.
NoBaseline == [ exposure_us |-> Unbound, I_white |-> Unbound, I_black |-> Unbound ]
NoThread == [ pc |-> "none", i |-> 0, frame |-> << 0, 0 >>,
              cal_Iw |-> Unbound, drift |-> FALSE ]

NoRun == [ validated |-> FALSE, statsCalls |-> 0, statsUnvalidated |-> FALSE,
           captures |-> 0, expWrites |-> 0, expAtCall |-> 0,
           measuredAt |-> 0 ]
NoLast == [ kind |-> "none", iteration |-> 0, Iw |-> Unbound, Ib |-> Unbound,
            exp |-> 0, factor |-> 0, proposed |-> 0 ]

Baseline(triple) ==
    [ exposure_us |-> triple[1], I_white |-> triple[2], I_black |-> triple[3] ]

\* State after construction.  main.py: PeanutApp.__init__ has disabled the
\* Start button and scheduled startup_camera_init; no camera yet.
\* calibration.py: the module-level camera set-up has run.
Init ==
    /\ prog \in Progs
    /\ frameShape \in Shapes
    /\ CAM_OK = (prog = "calibration")
    /\ camExposure = InitExposure(prog)
    /\ driver = FALSE
    /\ leds = AllOff
    /\ calibration_results = NoResults
    /\ start_btn = "disabled"
    /\ pc = IF prog = "main" THEN "startup" ELSE "start"
    /\ led_id = 1
    /\ iteration = 0
    /\ exp_us = Unbound /\ Iw = Unbound /\ Ib = Unbound
    /\ ret = << >>
    /\ exc = "none"
    /\ run = NoRun
    /\ last = NoLast
    /\ is_capturing = FALSE
    /\ capture_thread = NoThread
    /\ stale = {}
    /\ led_test = AllOff
    /\ qc = NoCall /\ norm = NoCall /\ stats = NoCall

\* ------------------------------------------------------------- calibrate_led
\* Entry of calibrate_led: exp_us = cam.ExposureTime.GetValue()
calibrate_led_enter ==
    /\ pc = "enter"
    /\ iteration' = 0
    /\ Iw' = Unbound /\ Ib' = Unbound
    /\ ret' = << >>
    /\ last' = NoLast
    /\ run' = [NoRun EXCEPT !.expAtCall = camExposure]
    /\ \/ /\ exp_us' = camExposure
          /\ exc' = "none"
          /\ pc' = "loop"
          /\ UNCHANGED CAM_OK
       \/ \* GetValue raises: the camera is gone
          /\ exp_us' = Unbound
          /\ exc' = IF prog = "main" THEN "RuntimeError" ELSE "SpinnakerException"
          /\ CAM_OK' = IF prog = "main" THEN FALSE ELSE CAM_OK
          /\ pc' = "raised"
    /\ UNCHANGED << pure, led_test, worker, stale, prog, frameShape, camExposure, hardware,
                    calibration_results, start_btn, led_id >>

InLoop == pc = "loop" /\ iteration < MaxIterations(prog)

\* The relays after the capture call of an iteration has returned:
\* calibration.py switches the LED and the driver off right after
\* capture_array(), main.py leaves them on.
AfterCaptureLeds ==
    IF prog = "main" THEN [leds EXCEPT ![led_id] = TRUE] ELSE [leds EXCEPT ![led_id] = FALSE]
AfterCaptureDriver == prog = "main"

\* capture_image() of main.py raises at once when CAM_OK is false;
\* capture_array() of calibration.py has no such test.
CameraReady == prog = "main" => CAM_OK

\* capture_image() / capture_array() raises, in BeginAcquisition/GetNextImage
\* or (main.py) for want of a camera.
iteration_capture_raises ==
    /\ InLoop
    /\ driver' = TRUE
    /\ leds' = [leds EXCEPT ![led_id] = TRUE]
    /\ CAM_OK' = IF prog = "main" THEN FALSE ELSE CAM_OK
    /\ exc' = IF prog = "main" THEN "RuntimeError" ELSE "SpinnakerException"
    /\ pc' = "raised"
    /\ run' = [run EXCEPT !.captures = @ + 1]
    /\ last' = [NoLast EXCEPT !.kind = "capture_raised", !.iteration = iteration,
                              !.exp = exp_us]
    /\ UNCHANGED << pure, led_test, worker, stale, prog, frameShape, camExposure, calibration_results,
                    start_btn, led_id, iteration, exp_us, Iw, Ib, ret >>

\* Mutant of iteration_incomplete: an incomplete frame aborts the run.
iteration_incomplete_aborts ==
    /\ InLoop
    /\ CameraReady
    /\ driver' = AfterCaptureDriver
    /\ leds' = AfterCaptureLeds
    /\ run' = [run EXCEPT !.captures = @ + 1]
    /\ last' = [NoLast EXCEPT !.kind = "incomplete", !.iteration = iteration,
                              !.exp = exp_us]
    /\ pc' = "raised"
    /\ exc' = "RuntimeError"
    /\ UNCHANGED << pure, led_test, worker, stale, prog, frameShape, CAM_OK, camExposure, calibration_results,
                    start_btn, led_id, iteration, exp_us, Iw, Ib, ret >>

\* img.IsIncomplete(): capture returns None, the iteration is skipped.
iteration_incomplete ==
    /\ InLoop
    /\ CameraReady
    /\ driver' = AfterCaptureDriver
    /\ leds' = AfterCaptureLeds
    /\ run' = [run EXCEPT !.captures = @ + 1]
    /\ last' = [NoLast EXCEPT !.kind = "incomplete", !.iteration = iteration,
                              !.exp = exp_us]
    /\ iteration' = iteration + 1
    /\ UNCHANGED << pure, led_test, worker, stale, prog, frameShape, CAM_OK, camExposure, calibration_results,
                    start_btn, pc, led_id, exp_us, Iw, Ib, ret, exc >>

\* if iteration == 0: validate_rois(img.shape)
ValidatedAfter == run.validated \/ (iteration = 0 /\ validate_rois(prog, frameShape))
RaisesValueError == iteration = 0 /\ ~validate_rois(prog, frameShape)

\* A complete frame whose ROIs fail validate_rois on iteration 0.
iteration_invalid_rois ==
    /\ InLoop
    /\ CameraReady
    /\ RaisesValueError
    /\ driver' = AfterCaptureDriver
    /\ leds' = AfterCaptureLeds
    /\ exc' = "ValueError"
    /\ pc' = "raised"
    /\ run' = [run EXCEPT !.captures = @ + 1]
    /\ last' = [NoLast EXCEPT !.kind = "invalid_rois", !.iteration = iteration,
                              !.exp = exp_us]
    /\ UNCHANGED << pure, led_test, worker, stale, prog, frameShape, CAM_OK, camExposure, calibration_results,
                    start_btn, led_id, iteration, exp_us, Iw, Ib, ret >>

\* A complete frame with white mean w and black mean b: roi_stats, the
\* target check, and (target missed) the exposure adjustment.
iteration_complete(w, b) ==
    /\ InLoop
    /\ CameraReady
    /\ ~RaisesValueError
    /\ driver' = AfterCaptureDriver
    /\ leds' = AfterCaptureLeds
    /\ Iw' = w
    /\ Ib' = b
    /\ IF TargetReached(w, b)
       THEN /\ pc' = "returned"
            /\ ret' = << exp_us, w, b >>
            /\ run' = [run EXCEPT !.captures = @ + 1,
                                  !.measuredAt = camExposure,
                                  !.validated = ValidatedAfter,
                                  !.statsCalls = @ + 1,
                                  !.statsUnvalidated = @ \/ ~ValidatedAfter]
            /\ last' = [ kind |-> "target_reached", iteration |-> iteration,
                         Iw |-> w, Ib |-> b, exp |-> exp_us,
                         factor |-> 0, proposed |-> 0 ]
            /\ UNCHANGED << iteration, exp_us, camExposure >>
       ELSE /\ exp_us' = Clamp(Scale(exp_us, AdjustFactor(prog, w)))
            /\ camExposure' = exp_us'
            /\ iteration' = iteration + 1
            /\ run' = [run EXCEPT !.captures = @ + 1,
                                  !.measuredAt = camExposure,
                                  !.validated = ValidatedAfter,
                                  !.statsCalls = @ + 1,
                                  !.statsUnvalidated = @ \/ ~ValidatedAfter,
                                  !.expWrites = 1]
            /\ last' = [ kind |-> "adjusted", iteration |-> iteration,
                         Iw |-> w, Ib |-> b, exp |-> exp_us,
                         factor |-> AdjustFactor(prog, w),
                         proposed |-> Scale(exp_us, AdjustFactor(prog, w)) ]
            /\ UNCHANGED << pc, ret >>
    /\ UNCHANGED << pure, led_test, worker, stale, prog, frameShape, CAM_OK, calibration_results,
                    start_btn, led_id, exc >>

\* The loop is exhausted: (main.py: led_device.off(); driver.off();)
\* return exp_us, Iw, Ib -- which raises UnboundLocalError when no frame of
\* the run was complete, Iw never having been assigned.
calibrate_led_exhausted ==
    /\ pc = "loop"
    /\ iteration = MaxIterations(prog)
    /\ IF prog = "main"
       THEN driver' = FALSE /\ leds' = [leds EXCEPT ![led_id] = FALSE]
       ELSE UNCHANGED hardware
    /\ IF Iw = Unbound
       THEN pc' = "raised" /\ exc' = "UnboundLocalError" /\ ret' = ret
       ELSE pc' = "returned" /\ ret' = << exp_us, Iw, Ib >> /\ exc' = exc
    /\ UNCHANGED << pure, led_test, worker, stale, prog, frameShape, CAM_OK, camExposure, calibration_results,
                    start_btn, led_id, iteration, exp_us, Iw, Ib, run, last >>

\* calibrate_led in front of a scene that yields the frames F.
calibrate_led_on(F) ==
    \/ calibrate_led_enter
    \/ iteration_capture_raises
    \/ iteration_incomplete
    \/ iteration_invalid_rois
    \/ \E f \in F : iteration_complete(f[1], f[2])
    \/ calibrate_led_exhausted

calibrate_led == calibrate_led_on(Frames)

\* The locals of calibrate_led are gone once its caller has taken the result.
DropLocals ==
    /\ iteration' = 0
    /\ exp_us' = Unbound /\ Iw' = Unbound /\ Ib' = Unbound
    /\ ret' = << >>
    /\ exc' = "none"
    /\ run' = NoRun
    /\ last' = NoLast

\* ------------------------------------------------------------ main.py callers
\* init_camera(): on success the camera is initialised with the default
\* exposure, on failure CAM_OK is False.
InitCameraOk ==
    /\ CAM_OK' = TRUE
    /\ camExposure' = InitExposure(prog)

InitCameraFails ==
    /\ CAM_OK' = FALSE
    /\ UNCHANGED camExposure

\* The part of calibrate_camera before the first calibrate_led call.
BeginCalibration ==
    /\ calibration_results' = NoResults
    /\ stale' = {}
    /\ led_id' = 1
    /\ pc' = "enter"

\* startup_camera_init, scheduled by __init__: init_camera, then
\* calibrate_camera when the camera is there.
startup_camera_init ==
    /\ prog = "main"
    /\ pc = "startup"
    /\ \/ InitCameraOk /\ BeginCalibration
       \/ InitCameraFails /\ pc' = "idle"
             /\ UNCHANGED << calibration_results, led_id, stale >>
    /\ UNCHANGED << pure, led_test, worker, prog, frameShape, hardware, start_btn, locals >>

\* The "Recalibrate LEDs" button.
calibrate_camera ==
    /\ prog = "main"
    /\ pc = "idle"
    /\ CAM_OK
    /\ BeginCalibration
    /\ UNCHANGED << pure, led_test, worker, prog, frameShape, CAM_OK, camExposure, hardware,
                    start_btn, locals >>

\* calibrate_camera after calibrate_led returned: record the baseline and go
\* on with the next LED, or finish and enable the Start button.
calibrate_camera_store ==
    /\ prog = "main"
    /\ pc = "returned"
    /\ calibration_results' = (led_id :> Baseline(ret)) @@ calibration_results
    /\ IF led_id < 3
       THEN /\ led_id' = led_id + 1
            /\ pc' = "enter"
            /\ UNCHANGED start_btn
       ELSE /\ led_id' = 1
            /\ pc' = "idle"
            /\ start_btn' = "normal"
    /\ DropLocals
    /\ UNCHANGED << pure, led_test, worker, stale, prog, frameShape, CAM_OK, camExposure, hardware >>

\* A variant that goes on with the next LED after an error.
calibrate_camera_except_NextLed ==
    /\ prog = "main"
    /\ pc = "raised"
    /\ pc' = IF led_id < 3 THEN "enter" ELSE "idle"
    /\ led_id' = IF led_id < 3 THEN led_id + 1 ELSE 1
    /\ DropLocals
    /\ UNCHANGED << pure, led_test, worker, stale, prog, frameShape, CAM_OK, camExposure, hardware,
                    calibration_results, start_btn >>

\* calibrate_camera's except clause: report the error, calibrate no further.
calibrate_camera_except ==
    /\ prog = "main"
    /\ pc = "raised"
    /\ pc' = "idle"
    /\ led_id' = 1
    /\ DropLocals
    /\ UNCHANGED << pure, led_test, worker, stale, prog, frameShape, CAM_OK, camExposure, hardware,
                    calibration_results, start_btn >>

\* The "Reconnect Camera" button, refused while a capture is running:
\* init_camera; when that fails, startup_camera_init (init_camera again, then
\* calibrate_camera).  A successful init_camera leaves calibration_results
\* as they are: every baseline they hold predates the reconnect.
on_reconnect_camera ==
    /\ prog = "main"
    /\ pc = "idle"
    /\ ~is_capturing
    /\ \/ InitCameraOk /\ stale' = DOMAIN calibration_results
             /\ UNCHANGED << calibration_results, led_id, pc >>
       \/ InitCameraOk /\ BeginCalibration
       \/ InitCameraFails /\ UNCHANGED << calibration_results, led_id, pc, stale >>
    /\ UNCHANGED << pure, led_test, worker, prog, frameShape, hardware, start_btn, locals >>

\* A manual LED test button, refused while a capture is running: every relay
\* is switched off, and if the LED was not flagged on, the driver and the LED
\* are switched on and the LED flagged.
toggle_led_exclusive(k) ==
    /\ prog = "main"
    /\ pc = "idle"
    /\ ~is_capturing
    /\ IF led_test[k]
       THEN /\ driver' = FALSE
            /\ leds' = AllOff
            /\ led_test' = AllOff
       ELSE /\ driver' = TRUE
            /\ leds' = [AllOff EXCEPT ![k] = TRUE]
            /\ led_test' = [AllOff EXCEPT ![k] = TRUE]
    /\ UNCHANGED << pure, worker, stale, prog, frameShape, CAM_OK, camExposure,
                    calibration_results, start_btn, pc, led_id, locals >>

\* A variant of the Start button's handler that does not look at CAM_OK.
on_start_capture_NoCameraTest ==
    /\ prog = "main"
    /\ pc = "idle"
    /\ start_btn = "normal"
    /\ led_test = AllOff
    /\ is_capturing' = TRUE
    /\ start_btn' = "disabled"
    /\ capture_thread' = IF capture_thread.pc \in { "none", "done" }
                         THEN [ NoThread EXCEPT !.pc = "expose", !.i = 1 ]
                         ELSE capture_thread
    /\ UNCHANGED << pure, led_test, stale, prog, frameShape, CAM_OK, camExposure, hardware,
                    calibration_results, pc, led_id, locals >>

\* ------------------------------------------------------ main.py capture flow
\* The Start button, out of reach while an LED test has disabled the Capture
\* tab: refused without a camera; otherwise is_capturing is set,
\* the button disabled and a capture_sequence thread started.  One worker
\* thread is followed: a thread started while another is alive is not.
on_start_capture ==
    /\ prog = "main"
    /\ pc = "idle"
    /\ start_btn = "normal"
    /\ led_test = AllOff
    /\ CAM_OK
    /\ is_capturing' = TRUE
    /\ start_btn' = "disabled"
    /\ capture_thread' = IF capture_thread.pc \in { "none", "done" }
                         THEN [ NoThread EXCEPT !.pc = "expose", !.i = 1 ]
                         ELSE capture_thread
    /\ UNCHANGED << pure, led_test, stale, prog, frameShape, CAM_OK, camExposure, hardware,
                    calibration_results, pc, led_id, locals >>

\* The worker has left the loop, by its end or by an exception, and through
\* its finally clause has queued _end for the GUI thread.
Ending == [ NoThread EXCEPT !.pc = "ending" ]

\* The worker moves to the next LED, or leaves the loop.
NextLed(t) == IF t.i < 3 THEN [ NoThread EXCEPT !.pc = "expose", !.i = t.i + 1 ]
                         ELSE Ending

\* The head of the loop body of capture_sequence for LED i: the exposure of
\* the LED's baseline, if it has one, is written to the camera, then the
\* driver and the LED are switched on.  A failing write clears CAM_OK and
\* ends the sequence.
capture_set_exposure ==
    /\ capture_thread.pc = "expose"
    /\ LET i == capture_thread.i
       IN  \/ /\ i \in DOMAIN calibration_results
              /\ camExposure' = calibration_results[i].exposure_us
              /\ driver' = TRUE
              /\ leds' = [leds EXCEPT ![i] = TRUE]
              /\ capture_thread' = [ capture_thread EXCEPT !.pc = "capture" ]
              /\ UNCHANGED CAM_OK
           \/ /\ i \in DOMAIN calibration_results
              /\ CAM_OK' = FALSE
              /\ capture_thread' = Ending
              /\ UNCHANGED << camExposure, hardware >>
           \/ /\ i \notin DOMAIN calibration_results
              /\ driver' = TRUE
              /\ leds' = [leds EXCEPT ![i] = TRUE]
              /\ capture_thread' = [ capture_thread EXCEPT !.pc = "capture" ]
              /\ UNCHANGED << CAM_OK, camExposure >>
    /\ UNCHANGED << pure, led_test, stale, is_capturing, prog, frameShape, calibration_results,
                    start_btn, pc, led_id, locals >>

\* capture_image and the switching off after it: without a camera, or on an
\* acquisition error, capture_image raises and the sequence ends with the
\* relays as they are; otherwise the LED and the driver are switched off,
\* and the worker goes on with the frame or (incomplete frame) with the next
\* LED.
capture_frame(F) ==
    /\ capture_thread.pc = "capture"
    /\ LET i == capture_thread.i
       IN  \/ /\ CAM_OK' = FALSE
              /\ capture_thread' = Ending
              /\ UNCHANGED hardware
           \/ /\ CAM_OK
              /\ driver' = FALSE
              /\ leds' = [leds EXCEPT ![i] = FALSE]
              /\ capture_thread' = NextLed(capture_thread)
              /\ UNCHANGED CAM_OK
           \/ /\ CAM_OK
              /\ driver' = FALSE
              /\ leds' = [leds EXCEPT ![i] = FALSE]
              /\ \E f \in F :
                    capture_thread' = [ capture_thread EXCEPT !.pc = "check",
                                                              !.frame = f ]
              /\ UNCHANGED CAM_OK
    /\ UNCHANGED << pure, led_test, stale, is_capturing, prog, frameShape, camExposure,
                    calibration_results, start_btn, pc, led_id, locals >>

\* A variant of _end that leaves the Start button as it is.
safe_capture_end_KeepsButton ==
    /\ capture_thread.pc = "ending"
    /\ pc = "idle"
    /\ is_capturing' = FALSE
    /\ capture_thread' = [ NoThread EXCEPT !.pc = "done" ]
    /\ UNCHANGED << pure, led_test, stale, prog, frameShape, CAM_OK, camExposure, hardware,
                    calibration_results, start_btn, pc, led_id, locals >>

\* safe_capture_end: _end, queued by the worker, runs on the GUI thread.
safe_capture_end ==
    /\ capture_thread.pc = "ending"
    /\ pc = "idle"
    /\ is_capturing' = FALSE
    /\ start_btn' = "normal"
    /\ capture_thread' = [ NoThread EXCEPT !.pc = "done" ]
    /\ UNCHANGED << pure, led_test, stale, prog, frameShape, CAM_OK, camExposure, hardware,
                    calibration_results, pc, led_id, locals >>

\* ------------------------------------------------------ calibration.py script
\* "STEP 1: Calibration": calibration_results = {}, then the loop over leds.
script_calibration ==
    /\ prog = "calibration"
    /\ pc = "start"
    /\ BeginCalibration
    /\ UNCHANGED << pure, led_test, worker, prog, frameShape, CAM_OK, camExposure, hardware,
                    start_btn, locals >>

script_store ==
    /\ prog = "calibration"
    /\ pc = "returned"
    /\ calibration_results' = (led_id :> Baseline(ret)) @@ calibration_results
    /\ IF led_id < 3
       THEN led_id' = led_id + 1 /\ pc' = "enter"
       ELSE led_id' = 1 /\ pc' = "calibrated"
    /\ DropLocals
    /\ UNCHANGED << pure, led_test, worker, stale, prog, frameShape, CAM_OK, camExposure, hardware, start_btn >>

\* An exception leaves the script through its finally block: relays off.
script_finally ==
    /\ prog = "calibration"
    /\ pc = "raised"
    /\ driver' = FALSE
    /\ leds' = AllOff
    /\ pc' = "exited"
    /\ DropLocals
    /\ UNCHANGED << pure, led_test, worker, stale, prog, frameShape, CAM_OK, camExposure, calibration_results,
                    start_btn, led_id >>

\* ------------------------------------------------------------ specification
\* One call of calibrate_led, from any exposure setpoint the camera can hold
\* when it is called.
CallExposures ==
    { EXP_MIN, Max(EXP_MIN, InitExposure("calibration")), InitExposure("main"), EXP_MAX }

LedInit ==
    /\ prog \in Progs
    /\ frameShape \in Shapes
    /\ CAM_OK = TRUE
    /\ camExposure \in CallExposures
    /\ driver = FALSE
    /\ leds = AllOff
    /\ calibration_results = NoResults
    /\ start_btn = "disabled"
    /\ pc = "enter"
    /\ led_id \in LedIds
    /\ iteration = 0
    /\ exp_us = Unbound /\ Iw = Unbound /\ Ib = Unbound
    /\ ret = << >>
    /\ exc = "none"
    /\ run = NoRun
    /\ last = NoLast
    /\ is_capturing = FALSE
    /\ capture_thread = NoThread
    /\ stale = {}
    /\ led_test = AllOff
    /\ qc = NoCall /\ norm = NoCall /\ stats = NoCall

LedSpec == LedInit /\ [][calibrate_led]_vars

\* calibrate_led is straight-line code around a capture call that returns
\* or raises within its 1000 ms timeout: a run that can step does step.
FairLedSpec == LedSpec /\ WF_vars(calibrate_led)

\* ---------------------------------------------------------- quality control
\* The arguments of apply_qc_and_print are in thousandths of a grey level, so
\* that the 1e-3 of the drift guard is the integer 1.
Milli(x) == 1000 * x

\* The drift guard, cal_Iw > 1e-3.
DriftChecked_AtThreshold(cal_Iw) == cal_Iw >= 1
DriftChecked(cal_Iw) == cal_Iw > 1

\* drift_white > DRIFT_FRAC_MAX, with drift_white = abs(Iw - cal_Iw) / cal_Iw
\* and cal_Iw positive, cross-multiplied; DRIFT_FRAC_MAX is in hundredths.
DriftExceeds(w, cal_Iw) == 100 * Abs(w - cal_Iw) > DRIFT_FRAC_MAX * cal_Iw

\* drift_white * 100 as the message prints it, in tenths of a percent rounded
\* to nearest; Unbound when the guard keeps the division from being evaluated.
drift_white(w, cal_Iw) ==
    IF DriftChecked(cal_Iw)
    THEN (2000 * Abs(w - cal_Iw) + cal_Iw) \div (2 * cal_Iw)
    ELSE Unbound

\* One check of the function: the message it appends, if any.
Warn(cond, kind) == IF cond THEN << kind >> ELSE << >>

\* A variant that returns at the first failed check.
QcChecks_FirstOnly(drift, w, b, std_w, std_b) ==
    IF drift THEN << "Drift" >>
    ELSE IF 100 * w > SAT_THRESH * Milli(MAX_VAL) THEN << "Saturation" >>
    ELSE IF w - b < Milli(DR_MIN) THEN << "LowDynamicRange" >>
    ELSE IF std_w > Milli(STD_WHITE_MAX) THEN << "NoisyWhite" >>
    ELSE Warn(std_b > Milli(STD_BLACK_MAX), "NoisyBlack")

\* A variant that checks the patch noise before the levels.
QcChecks_NoiseFirst(drift, w, b, std_w, std_b) ==
       Warn(std_w > Milli(STD_WHITE_MAX), "NoisyWhite")
    \o Warn(std_b > Milli(STD_BLACK_MAX), "NoisyBlack")
    \o Warn(drift, "Drift")
    \o Warn(100 * w > SAT_THRESH * Milli(MAX_VAL), "Saturation")
    \o Warn(w - b < Milli(DR_MIN), "LowDynamicRange")

\* The five checks in the order of the code, each an independent if that
\* appends to the list.
QcChecks(drift, w, b, std_w, std_b) ==
       Warn(drift, "Drift")
    \o Warn(100 * w > SAT_THRESH * Milli(MAX_VAL), "Saturation")
    \o Warn(w - b < Milli(DR_MIN), "LowDynamicRange")
    \o Warn(std_w > Milli(STD_WHITE_MAX), "NoisyWhite")
    \o Warn(std_b > Milli(STD_BLACK_MAX), "NoisyBlack")

\* A variant that measures the drift of the white mean against the black
\* baseline.
apply_qc_and_print_DriftVsBlack(w, b, std_w, std_b, cal_Iw, cal_Ib) ==
    QcChecks(DriftChecked(cal_Ib) /\ DriftExceeds(w, cal_Ib), w, b, std_w, std_b)

\* The list of warnings apply_qc_and_print builds.
apply_qc_and_print(w, b, std_w, std_b, cal_Iw, cal_Ib) ==
    QcChecks(DriftChecked(cal_Iw) /\ DriftExceeds(w, cal_Iw), w, b, std_w, std_b)

\* The arguments the function is applied to: values at, just below and just
\* above each threshold.
QcBaselineWhites == { 0, 1, 2, Milli(180), Milli(220) }
QcBaselineBlacks == { 0, Milli(20) }
QcWhites == { 0, 2, Milli(162) - 1, Milli(162), Milli(180), Milli(198),
              Milli(198) + 1, Milli(220), 249900, 249901 }
QcBlacks == { 0, Milli(20), Milli(150), Milli(150) + 1, Milli(220) }
QcStds == { Milli(8), Milli(8) + 1 }

\* How many times the function is applied to the same arguments.
MaxCalls == 2

\* The calibration flow is not running while a helper function is examined.
FlowIdle ==
    /\ prog \in Progs
    /\ frameShape = << 1200, 1920 >>
    /\ CAM_OK = TRUE
    /\ camExposure = InitExposure(prog)
    /\ driver = FALSE
    /\ leds = AllOff
    /\ calibration_results = NoResults
    /\ start_btn = "disabled"
    /\ pc = "helper"
    /\ led_id = 1
    /\ iteration = 0
    /\ exp_us = Unbound /\ Iw = Unbound /\ Ib = Unbound
    /\ ret = << >>
    /\ exc = "none"
    /\ run = NoRun
    /\ last = NoLast
    /\ is_capturing = FALSE
    /\ capture_thread = NoThread
    /\ stale = {}
    /\ led_test = AllOff

QcInit ==
    /\ FlowIdle
    /\ \E w \in QcWhites, b \in QcBlacks, sw \in QcStds, sb \in QcStds,
          cw \in QcBaselineWhites, cb \in QcBaselineBlacks :
          qc = [ calls |-> 0, Iw |-> w, Ib |-> b, std_w |-> sw, std_b |-> sb,
                 cal_Iw |-> cw, cal_Ib |-> cb, warnings |-> << >>,
                 previous |-> << >>, drift_white |-> Unbound,
                 returned |-> FALSE ]
    /\ norm = NoCall
    /\ stats = NoCall

\* One call of apply_qc_and_print on the arguments held in qc; main.py
\* returns the list, calibration.py prints it and returns None.
qc_call ==
    /\ pc = "helper"
    /\ qc.calls < MaxCalls
    /\ qc' = [ qc EXCEPT
                 !.calls = @ + 1,
                 !.previous = qc.warnings,
                 !.warnings = apply_qc_and_print(qc.Iw, qc.Ib, qc.std_w, qc.std_b,
                                                 qc.cal_Iw, qc.cal_Ib),
                 !.drift_white = drift_white(qc.Iw, qc.cal_Iw),
                 !.returned = (prog = "main") ]
    /\ UNCHANGED << flow, norm, stats >>

QcSpec == QcInit /\ [][qc_call]_vars

\* ------------------------------------------------------------ normalisation
\* normalize_with_refs computes in float32: img.astype(np.float32) times the
\* Python float gain, plus the Python float offset, each operand and each
\* result rounded to a 24-bit significand, round to nearest, ties to even.
\* A float32 is [neg, m, e], standing for m * 2^e, with m = 0 and e = 0 for
\* zero and 2^23 <= m < 2^24 otherwise.
F32_SIGNIFICAND == 24
F32Zero == [ neg |-> FALSE, m |-> 0, e |-> 0 ]
F32One == [ neg |-> FALSE, m |-> 2^(F32_SIGNIFICAND - 1), e |-> 1 - F32_SIGNIFICAND ]

\* The number of bits of a natural number below 2^31.
BitLen(n) ==
    IF n >= 2^30 THEN 31
    ELSE CHOOSE k \in 0..30 : (k = 0 \/ 2^(k - 1) <= n) /\ n < 2^k

\* n * 2^e rounded to float32, for a natural number n below 2^31.
F32Round(n, e) ==
    LET len == BitLen(n)
        s == len - F32_SIGNIFICAND
    IN  IF n = 0 THEN F32Zero
        ELSE IF s <= 0 THEN [ neg |-> FALSE, m |-> n * 2^(-s), e |-> e + s ]
        ELSE LET q == n \div 2^s
                 r == n % 2^s
                 half == 2^(s - 1)
                 up == r > half \/ (r = half /\ q % 2 = 1)
                 m == IF up THEN q + 1 ELSE q
             IN  IF m = 2^F32_SIGNIFICAND
                 THEN [ neg |-> FALSE, m |-> 2^(F32_SIGNIFICAND - 1), e |-> e + s + 1 ]
                 ELSE [ neg |-> FALSE, m |-> m, e |-> e + s ]

\* a / b rounded to float32, for a natural number a and a positive b, both
\* below 64: the quotient to 25 bits, the last one the guard bit, and the
\* remainder as the sticky bit.
F32Quotient(a, b) ==
    IF a = 0 THEN F32Zero
    ELSE LET k0 == F32_SIGNIFICAND + BitLen(b) - BitLen(a)
             k == IF (a * 2^k0) \div b >= 2^F32_SIGNIFICAND THEN k0 ELSE k0 + 1
             q == (a * 2^k) \div b
             r == (a * 2^k) % b
             m == q \div 2
             up == q % 2 = 1 /\ (r # 0 \/ m % 2 = 1)
             m2 == IF up THEN m + 1 ELSE m
         IN  IF m2 = 2^F32_SIGNIFICAND
             THEN [ neg |-> FALSE, m |-> 2^(F32_SIGNIFICAND - 1), e |-> 2 - k ]
             ELSE [ neg |-> FALSE, m |-> m2, e |-> 1 - k ]

\* p - o rounded to float32, for two float32 that are not negative.
F32Sub(p, o) ==
    IF o.m = 0 THEN p
    ELSE IF p.m = 0 THEN [ o EXCEPT !.neg = TRUE ]
    ELSE LET em == Min(p.e, o.e)
             P == p.m * 2^(p.e - em)
             O == o.m * 2^(o.e - em)
         IN  IF P >= O THEN F32Round(P - O, em)
             ELSE [ F32Round(O - P, em) EXCEPT !.neg = TRUE ]

F32Above(x, y) ==
    /\ ~x.neg /\ x.m # 0
    /\ x.e > y.e \/ (x.e = y.e /\ x.m > y.m)

\* A clip without its upper bound.
clip_LowerOnly(x) == IF x.neg THEN F32Zero ELSE x

\* np.clip(img_norm, 0.0, 1.0)
clip(x) ==
    IF x.neg \/ x.m = 0 THEN F32Zero
    ELSE IF F32Above(x, F32One) THEN F32One
    ELSE x

\* 1 / eps, for eps = 1e-6.
EPS_INV == 1000000

\* max(I_white - I_black, eps), in millionths of a grey level.
Divisor(I_white, I_black) == Max(EPS_INV * (I_white - I_black), 1)

\* One pixel of normalize_with_refs, for a pixel value and reference means
\* that are natural numbers below 64.
normalize_with_refs(pixel, I_white, I_black) ==
    LET byEps == Divisor(I_white, I_black) = 1
        gain == IF byEps THEN F32Round(EPS_INV, 0)
                ELSE F32Quotient(1, I_white - I_black)
        \* -offset, which is not negative
        offset == IF byEps THEN F32Round(I_black * EPS_INV, 0)
                  ELSE F32Quotient(I_black, I_white - I_black)
        product == F32Round(pixel * gain.m, gain.e)
    IN  clip(F32Sub(product, offset))

\* The largest pixel value and reference mean examined.
NormMax == 15

NormInit ==
    /\ FlowIdle
    /\ qc = NoCall
    /\ \E px \in 0..NormMax, w \in 0..NormMax, b \in 0..NormMax :
          norm = [ calls |-> 0, pixel |-> px, I_white |-> w, I_black |-> b,
                   divisor |-> Unbound, result |-> F32Zero ]
    /\ stats = NoCall

\* One call of normalize_with_refs, followed at one pixel of the image.
norm_call ==
    /\ pc = "helper"
    /\ norm # NoCall
    /\ norm.calls = 0
    /\ norm' = [ norm EXCEPT
                   !.calls = 1,
                   !.divisor = Divisor(norm.I_white, norm.I_black),
                   !.result = normalize_with_refs(norm.pixel, norm.I_white,
                                                  norm.I_black) ]
    /\ UNCHANGED << flow, qc, stats >>

NormSpec == NormInit /\ [][norm_call]_vars

\* --------------------------------------------------------- region statistics
\* A patch, img[y1:y2, x1:x2], is the sequence of its pixel values; a mean is
\* an exact fraction << numerator, denominator >>; a standard deviation is in
\* hundredths of a grey level, rounded down.
RECURSIVE SeqSum(_)
SeqSum(s) == IF s = << >> THEN 0 ELSE Head(s) + SeqSum(Tail(s))

Squares(s) == [ i \in 1..Len(s) |-> s[i] * s[i] ]

RECURSIVE SqrtBetween(_, _, _)
SqrtBetween(n, lo, hi) ==
    IF hi - lo <= 1 THEN lo
    ELSE LET mid == (lo + hi) \div 2
         IN  IF mid * mid <= n THEN SqrtBetween(n, mid, hi)
             ELSE SqrtBetween(n, lo, mid)

\* The integer square root of a natural number below 46340^2.
ISqrt(n) == SqrtBetween(n, 0, 46340)

RatEq(a, b) == a[1] * b[2] = b[1] * a[2]
RatAdd(a, b) == << a[1] * b[2] + b[1] * a[2], a[2] * b[2] >>

\* patch.mean()
PatchMean(patch) == << SeqSum(patch), Len(patch) >>

\* patch.std(), the population standard deviation: sqrt(n*sum(x^2) - sum(x)^2) / n.
PatchStd(patch) ==
    LET n == Len(patch)
        v == n * SeqSum(Squares(patch)) - SeqSum(patch) * SeqSum(patch)
    IN  ISqrt(v * 10000) \div n

\* The sum of a list of fractions.
RECURSIVE RatSum(_)
RatSum(fs) == IF fs = << >> THEN << 0, 1 >> ELSE RatAdd(Head(fs), RatSum(Tail(fs)))

\* np.mean of a list of fractions.
RatMean(fs) == << RatSum(fs)[1], RatSum(fs)[2] * Len(fs) >>

RECURSIVE Flatten(_)
Flatten(patches) ==
    IF patches = << >> THEN << >> ELSE Head(patches) \o Flatten(Tail(patches))

\* A variant that pools the pixels of all regions.
roi_stats_Pooled(patches) ==
    [ mean |-> PatchMean(Flatten(patches)),
      std |-> << PatchStd(Flatten(patches)), 1 >> ]

\* roi_stats on the patches its ROI list cuts out of the image: the mean of
\* the per-patch means and the mean of the per-patch standard deviations.
roi_stats(patches) ==
    LET means == [ i \in 1..Len(patches) |-> PatchMean(patches[i]) ]
        stds == [ i \in 1..Len(patches) |-> << PatchStd(patches[i]), 1 >> ]
    IN  [ mean |-> RatMean(means), std |-> RatMean(stds) ]

\* The pixel values, the patch sizes and the ROI list lengths examined.
PixelValues == { 20, 180 }
MaxPatch == 3
MaxRois == 2
Patches == UNION { [ 1..n -> PixelValues ] : n \in 1..MaxPatch }
RoiPatches == UNION { [ 1..k -> Patches ] : k \in 1..MaxRois }

StatsInit ==
    /\ FlowIdle
    /\ qc = NoCall
    /\ norm = NoCall
    /\ \E ps \in RoiPatches :
          stats = [ calls |-> 0, patches |-> ps,
                    mean |-> << 0, 1 >>, std |-> << 0, 1 >> ]

\* One call of roi_stats.
stats_call ==
    /\ pc = "helper"
    /\ stats # NoCall
    /\ stats.calls = 0
    /\ stats' = [ stats EXCEPT
                    !.calls = 1,
                    !.mean = roi_stats(stats.patches).mean,
                    !.std = roi_stats(stats.patches).std ]
    /\ UNCHANGED << flow, qc, norm >>

StatsSpec == StatsInit /\ [][stats_call]_vars

\* main.py in front of a reference tray that is on target or too dark.
\* ------------------------------------------- calibration followed by a check
\* The triple calibrate_led returned becomes the LED's baseline, and a later
\* frame of capture_sequence that shows the very means of the baseline is
\* put to apply_qc_and_print against it.  Means are in tenths in calibrate_led
\* and in thousandths in apply_qc_and_print.
check_against_own_baseline ==
    /\ pc = "returned"
    /\ qc = NoCall
    /\ \E sw \in QcStds, sb \in QcStds :
          LET w == 100 * ret[2]
              b == 100 * ret[3]
          IN  qc' = [ calls |-> 1, Iw |-> w, Ib |-> b, std_w |-> sw, std_b |-> sb,
                      cal_Iw |-> w, cal_Ib |-> b,
                      warnings |-> apply_qc_and_print(w, b, sw, sb, w, b),
                      previous |-> << >>,
                      drift_white |-> drift_white(w, w),
                      returned |-> (prog = "main") ]
    /\ UNCHANGED << flow, norm, stats >>

GateSpec == LedInit /\ [][calibrate_led \/ check_against_own_baseline]_vars

\* ---------------------------------------------- main.py capture flow, checks
\* A variant that checks every frame against itself.
CheckedAgainst_Self(t) == NoBaseline

\* cal = calibration_results.get(i, None): the baseline the frame of the
\* worker is checked against, NoBaseline (None) when the LED has none.
CheckedAgainst(t) ==
    IF t.i \in DOMAIN calibration_results THEN calibration_results[t.i] ELSE NoBaseline

\* The quality check of the frame of the worker: against the baseline means,
\* or (fallback) against its own; whether a Drift warning came out of it.
\* roi_stats yields means in grey levels, here in tenths; the patch noise is
\* left at zero.
capture_check ==
    /\ capture_thread.pc = "check"
    /\ LET t      == capture_thread
           cal    == CheckedAgainst(t)
           Iw_    == 100 * t.frame[1]
           Ib_    == 100 * t.frame[2]
           cal_Iw == IF cal = NoBaseline THEN Iw_ ELSE 100 * cal.I_white
           cal_Ib == IF cal = NoBaseline THEN Ib_ ELSE 100 * cal.I_black
           warnings == apply_qc_and_print(Iw_, Ib_, 0, 0, cal_Iw, cal_Ib)
       IN  capture_thread' =
               [ t EXCEPT
                   !.pc = "save",
                   !.cal_Iw = cal_Iw,
                   !.drift = \E n \in 1..Len(warnings) : warnings[n] = "Drift" ]
    /\ UNCHANGED << pure, led_test, stale, is_capturing, prog, frameShape, CAM_OK, camExposure,
                    hardware, calibration_results, start_btn, pc, led_id, locals >>

\* The rest of the loop body: the warnings are shown, the frame is normalised
\* and saved, and the worker goes on with the next LED.
capture_save ==
    /\ capture_thread.pc = "save"
    /\ capture_thread' = NextLed(capture_thread)
    /\ UNCHANGED << pure, led_test, stale, is_capturing, prog, frameShape, CAM_OK, camExposure,
                    hardware, calibration_results, start_btn, pc, led_id, locals >>

AppFrames == { << Tenths(180), Tenths(20) >>, << Tenths(100), Tenths(20) >> }

AppInit == Init /\ prog = "main"

AppNext ==
    \/ calibrate_led_on(AppFrames)
    \/ startup_camera_init
    \/ calibrate_camera
    \/ calibrate_camera_store
    \/ calibrate_camera_except
    \/ on_reconnect_camera
    \/ \E k \in LedIds : toggle_led_exclusive(k)
    \/ on_start_capture
    \/ capture_set_exposure
    \/ capture_frame(AppFrames)
    \/ capture_check
    \/ capture_save
    \/ safe_capture_end

AppSpec == AppInit /\ [][AppNext]_vars

\* main.py with the reference tiles in place, every complete frame at the
\* target: what remains is the order of the operator's actions, the camera
\* errors, the incomplete frames and the interleaving of the two threads.
SteadyFrames == { << Tenths(TARGET_WHITE), Tenths(20) >> }

SteadyNext ==
    \/ calibrate_led_on(SteadyFrames)
    \/ startup_camera_init
    \/ calibrate_camera
    \/ calibrate_camera_store
    \/ calibrate_camera_except
    \/ on_reconnect_camera
    \/ \E k \in LedIds : toggle_led_exclusive(k)
    \/ on_start_capture
    \/ capture_set_exposure
    \/ capture_frame(SteadyFrames)
    \/ capture_check
    \/ capture_save
    \/ safe_capture_end

\* Scheduling of main.py.  The worker thread and a calibration on the GUI
\* thread are straight-line code around sleeps and a capture call with a
\* 1000 ms timeout: a step that stays possible is taken.  _end is a callback
\* queued with after(0): the Tk event loop serves its queue whenever the GUI
\* thread comes back to it, however often the operator sends it away again.
FairAppSpec ==
    /\ AppInit /\ [][SteadyNext]_vars
    /\ WF_vars(calibrate_led_on(SteadyFrames))
    /\ WF_vars(calibrate_camera_store)
    /\ WF_vars(calibrate_camera_except)
    /\ WF_vars(capture_set_exposure)
    /\ WF_vars(capture_frame(SteadyFrames))
    /\ WF_vars(capture_check)
    /\ WF_vars(capture_save)
    /\ SF_vars(safe_capture_end)

\* The whole program.
Next ==
    \/ calibrate_led
    \/ startup_camera_init
    \/ calibrate_camera
    \/ calibrate_camera_store
    \/ calibrate_camera_except
    \/ on_reconnect_camera
    \/ \E k \in LedIds : toggle_led_exclusive(k)
    \/ on_start_capture
    \/ capture_set_exposure
    \/ capture_frame(AppFrames)
    \/ capture_check
    \/ capture_save
    \/ safe_capture_end
    \/ script_calibration
    \/ script_store
    \/ script_finally

Spec == Init /\ [][Next]_vars

\* ================================================================== claims
\* The success condition as the specification words it, in tenths.
WithinTolerance(w) == Abs(w - Tenths(TARGET_WHITE)) <= Tenths(WHITE_TOL)
EnoughRange(w, b) == w - b >= Tenths(DR_MIN)
AtOrAboveSaturation(w) == 100 * w >= SAT_THRESH * Tenths(MAX_VAL)
MeetsTarget(w, b) == WithinTolerance(w) /\ EnoughRange(w, b) /\ ~AtOrAboveSaturation(w)

\* The latest iteration had a complete frame and computed its statistics.
LastHadStats == last.kind \in {"target_reached", "adjusted"}
Finished == pc \in {"returned", "raised"}

\* C1: an iteration with a complete frame leaves the loop through the
\* "target reached" return exactly when its frame meets the tolerance, range
\* and saturation conditions (so the loop is left at the first such frame),
\* and the means returned then are that frame's and meet the conditions.
C1_TargetReturnAtFirstMeetingFrame ==
    /\ LastHadStats =>
         (last.kind = "target_reached" <=> MeetsTarget(last.Iw, last.Ib))
    /\ last.kind = "target_reached" =>
         /\ pc = "returned"
         /\ ret[2] = last.Iw /\ ret[3] = last.Ib
         /\ MeetsTarget(ret[2], ret[3])
    /\ (pc = "loop" /\ LastHadStats) => ~MeetsTarget(last.Iw, last.Ib)

C1_Witness ==
    /\ pc = "returned"
    /\ last.kind = "target_reached"
    /\ last.iteration = 2
    /\ run.statsCalls = 2
    /\ ret[2] = Tenths(185) /\ ret[3] = Tenths(155)

\* C2: when the frame of iteration 0 meets the conditions, calibrate_led
\* returns in iteration 0 with that frame's means, has captured one frame
\* only, and has not written the exposure setpoint, which is still the one
\* the camera held at the call.
C2_ImmediateReturnLeavesExposure ==
    (LastHadStats /\ last.iteration = 0 /\ MeetsTarget(last.Iw, last.Ib)) =>
        /\ pc = "returned"
        /\ ret = << run.expAtCall, last.Iw, last.Ib >>
        /\ run.captures = 1
        /\ run.expWrites = 0
        /\ camExposure = run.expAtCall

C2_Witness ==
    /\ pc = "returned"
    /\ last.iteration = 0
    /\ ret = << InitExposure("main"), Tenths(180), Tenths(20) >>
    /\ prog = "main"
    /\ camExposure = InitExposure("main")

\* C3: every exposure calibrate_led writes to the camera lies within
\* [EXP_MIN, EXP_MAX], whatever the adjustment proposed.
C3_WrittenExposureInRange ==
    last.kind = "adjusted" =>
        /\ camExposure = exp_us
        /\ EXP_MIN <= camExposure /\ camExposure <= EXP_MAX

C3_Witness ==
    /\ last.kind = "adjusted"
    /\ last.proposed > EXP_MAX
    /\ camExposure = EXP_MAX

\* C4 (as claimed): a complete frame that misses the target with a white mean
\* at or above SAT_THRESH * MAX_VAL, equality included, has the exposure
\* multiplied by 0.7.
C4_SaturatedStepIsPoint7 ==
    (last.kind = "adjusted" /\ AtOrAboveSaturation(last.Iw)) =>
        /\ last.factor = 7
        /\ last.proposed = (7 * last.exp) \div 10

\* C5 (as claimed): in main.py and calibration.py alike, a complete frame that
\* misses the target with a white mean above TARGET_WHITE and below
\* SAT_THRESH * MAX_VAL has the exposure multiplied by 0.9.
AboveTargetBelowSaturation(w) == w > Tenths(TARGET_WHITE) /\ ~AtOrAboveSaturation(w)

C5_GentleStepInBothPrograms ==
    (last.kind = "adjusted" /\ AboveTargetBelowSaturation(last.Iw)) =>
        /\ last.factor = 9
        /\ last.proposed = (9 * last.exp) \div 10

\* C5 (amended): such a frame has the exposure multiplied by 0.9 in main.py
\* and by 0.7 in calibration.py, which has no gentle step.
C5_GentleStepInMainOnly ==
    (last.kind = "adjusted" /\ AboveTargetBelowSaturation(last.Iw)) =>
        IF prog = "main"
        THEN last.factor = 9 /\ last.proposed = (9 * last.exp) \div 10
        ELSE last.factor = 7 /\ last.proposed = (7 * last.exp) \div 10

C5_Witness ==
    /\ prog = "main"
    /\ last.kind = "adjusted"
    /\ last.Iw = Tenths(185) + 1
    /\ last.exp = InitExposure("main")
    /\ last.proposed = 15
    /\ exp_us = 15

\* C6: a complete frame that misses the target with a white mean neither at
\* or above the saturation limit nor above TARGET_WHITE has the exposure
\* multiplied by 1.3, and every frame that misses the target has exactly one
\* of the factors 0.7, 0.9, 1.3 applied.
C6_DarkStepIsOnePoint3 ==
    last.kind = "adjusted" =>
        /\ (~AtOrAboveSaturation(last.Iw) /\ ~(last.Iw > Tenths(TARGET_WHITE))) =>
              /\ last.factor = 13
              /\ last.proposed = (13 * last.exp) \div 10
        /\ last.factor \in {7, 9, 13}
        /\ 10 * last.proposed <= last.factor * last.exp
        /\ last.factor * last.exp < 10 * (last.proposed + 1)

C6_Witness ==
    /\ last.kind = "adjusted"
    /\ last.Iw = Tenths(100)
    /\ last.exp = InitExposure("main")
    /\ last.proposed = 22
    /\ exp_us = 22

\* C7: an iteration whose frame is incomplete takes one slot of the budget,
\* computes no statistics, leaves the exposure alone and does not end the
\* loop, which goes on with the next iteration.
C7_IncompleteFrameSkipsIteration ==
    [][ (last'.kind = "incomplete" /\ run'.captures = run.captures + 1) =>
          /\ pc = "loop" /\ pc' = "loop"
          /\ iteration' = iteration + 1
          /\ run'.statsCalls = run.statsCalls
          /\ run'.expWrites = run.expWrites
          /\ camExposure' = camExposure
          /\ exp_us' = exp_us
          /\ Iw' = Iw /\ Ib' = Ib
          /\ ret' = ret /\ exc' = exc ]_vars

C7_Witness ==
    /\ last.kind = "incomplete"
    /\ pc = "loop"
    /\ iteration = 3
    /\ run.captures = 3
    /\ run.statsCalls = 2
    /\ run.expWrites = 1

\* C8 (as claimed): no run of calibrate_led computes region statistics on a
\* frame before validate_rois has succeeded in that run.
C8_ValidatedBeforeStats ==
    ~run.statsUnvalidated

\* C9 (as claimed): a run that uses up its iteration budget without meeting
\* the target returns the triple of its last computed values, and does not
\* raise.
C9_ExhaustedRunReturns ==
    (Finished /\ iteration = MaxIterations(prog)) =>
        /\ pc = "returned"
        /\ ret = << exp_us, Iw, Ib >>

\* C10: a run of calibrate_led captures one frame per iteration, at most 5
\* frames in main.py and 12 in calibration.py, and ends, returning or
\* raising.
CaptureBudget == IF prog = "main" THEN 5 ELSE 12

CapturesWithinBudget ==
    /\ run.captures <= CaptureBudget
    /\ pc = "loop" => run.captures = iteration
    /\ Finished => run.captures \in {iteration, iteration + 1}

WarningOrder == << "Drift", "Saturation", "LowDynamicRange", "NoisyWhite", "NoisyBlack" >>
WarningKinds == { WarningOrder[i] : i \in 1..Len(WarningOrder) }
Emitted == { qc.warnings[i] : i \in 1..Len(qc.warnings) }
QcCalled == pc = "helper" /\ qc.calls > 0

\* C12: the Drift warning is emitted exactly when the baseline white mean is
\* above 1e-3 and the white mean differs from it by more than DRIFT_FRAC_MAX
\* of it; with a baseline at or below 1e-3 there is no Drift warning and the
\* division is not evaluated, whatever the white mean.
C12_DriftIffGuardedFractionExceeded ==
    QcCalled =>
        /\ ("Drift" \in Emitted) <=>
               (qc.cal_Iw > 1 /\ 10 * Abs(qc.Iw - qc.cal_Iw) > qc.cal_Iw)
        /\ qc.cal_Iw <= 1 => ("Drift" \notin Emitted /\ qc.drift_white = Unbound)
        /\ qc.cal_Iw > 1 => qc.drift_white # Unbound

\* The scenario: baseline 180, white mean 220, warned with 22.2%.
C12_Witness ==
    /\ QcCalled
    /\ qc.cal_Iw = Milli(180) /\ qc.Iw = Milli(220)
    /\ "Drift" \in Emitted
    /\ qc.drift_white = 222

\* Every set of warnings the function builds over the arguments examined.
ReturnedTogether ==
    { { apply_qc_and_print(w, b, sw, sb, cw, cb)[i] :
            i \in 1..Len(apply_qc_and_print(w, b, sw, sb, cw, cb)) } :
        w \in QcWhites, b \in QcBlacks, sw \in QcStds, sb \in QcStds,
        cw \in QcBaselineWhites, cb \in QcBaselineBlacks }

\* C13: every call runs all five checks: Saturation is in the result iff the
\* white mean is above SAT_THRESH * MAX_VAL, LowDynamicRange iff white minus
\* black is below DR_MIN, NoisyWhite iff the white std is above STD_WHITE_MAX,
\* NoisyBlack iff the black std is above STD_BLACK_MAX, whatever the other
\* checks found; and every subset of the five warnings is the result of some
\* call.
C13_AllChecksRunIndependently ==
    /\ QcCalled =>
        /\ ("Saturation" \in Emitted) <=> (qc.Iw > 249900)
        /\ ("LowDynamicRange" \in Emitted) <=> (qc.Iw - qc.Ib < 30000)
        /\ ("NoisyWhite" \in Emitted) <=> (qc.std_w > 8000)
        /\ ("NoisyBlack" \in Emitted) <=> (qc.std_b > 8000)
    /\ ReturnedTogether = SUBSET WarningKinds

\* A call of main.py that returns all five warnings together.
C13_Witness ==
    /\ QcCalled /\ qc.returned
    /\ Emitted = WarningKinds

Position(kind) == CHOOSE i \in 1..Len(WarningOrder) : WarningOrder[i] = kind

\* C14: the warnings are in the order Drift, Saturation, LowDynamicRange,
\* NoisyWhite, NoisyBlack, each at most once, and a second call with the same
\* arguments builds the same list.
C14_FixedOrderEachOnce ==
    QcCalled =>
        /\ \A i \in 1..Len(qc.warnings) : qc.warnings[i] \in WarningKinds
        /\ \A i, j \in 1..Len(qc.warnings) :
               i < j => Position(qc.warnings[i]) < Position(qc.warnings[j])
        /\ qc.calls > 1 => qc.warnings = qc.previous

\* A second call that builds, again, a list of several warnings with gaps.
C14_Witness ==
    /\ QcCalled /\ qc.calls = 2
    /\ qc.warnings = << "Drift", "LowDynamicRange", "NoisyBlack" >>
    /\ qc.previous = qc.warnings

WithinQcThresholds ==
    /\ qc.Iw <= 249900
    /\ qc.Iw - qc.Ib >= 30000
    /\ qc.std_w <= 8000
    /\ qc.std_b <= 8000

\* C15: a frame whose white and black means equal the baseline's never gets
\* a Drift warning, and gets no warning at all when it is also within the
\* saturation, dynamic-range and noise thresholds.
C15_BaselineFrameHasNoDrift ==
    (QcCalled /\ qc.Iw = qc.cal_Iw /\ qc.Ib = qc.cal_Ib) =>
        /\ "Drift" \notin Emitted
        /\ WithinQcThresholds => qc.warnings = << >>

\* The baseline frame 180/20 evaluated against itself: no warning.
C15_Witness ==
    /\ QcCalled
    /\ qc.Iw = Milli(180) /\ qc.cal_Iw = Milli(180)
    /\ qc.Ib = Milli(20) /\ qc.cal_Ib = Milli(20)
    /\ WithinQcThresholds
    /\ qc.warnings = << >>


\* ---------------------------------------------------------------------- C16
NormCalled == pc = "helper" /\ norm # NoCall /\ norm.calls > 0
InUnitInterval(x) == ~x.neg /\ ~F32Above(x, F32One)
DividesByEps == norm.divisor = 1

\* C16 (as claimed): with white above black the result is in [0,1], 0 for a
\* pixel at or below the black mean and 1 for a pixel at or above the white
\* mean; with white at or below black the function divides by eps and the
\* result is still in [0,1].
C16_ReferenceLevelsMapToZeroAndOne ==
    NormCalled =>
        /\ InUnitInterval(norm.result)
        /\ norm.I_white <= norm.I_black <=> DividesByEps
        /\ norm.I_white > norm.I_black =>
              /\ norm.pixel <= norm.I_black => norm.result = F32Zero
              /\ norm.pixel >= norm.I_white => norm.result = F32One

\* C16 (amended): the result is in [0,1] for every pixel value and every pair
\* of reference means, and the function divides by eps exactly when white is
\* at or below black; a pixel at a reference level need not map to exactly
\* 0 or 1.
C16_ResultWithinUnitInterval ==
    NormCalled =>
        /\ InUnitInterval(norm.result)
        /\ norm.I_white <= norm.I_black <=> DividesByEps

\* A pixel at the white mean that maps to 1 - 2^-24, the float32 below 1.
C16_Witness ==
    /\ NormCalled
    /\ norm.I_white > norm.I_black
    /\ norm.pixel = norm.I_white
    /\ norm.result = [ neg |-> FALSE, m |-> 2^24 - 1, e |-> -24 ]

\* C18 (as claimed): on every return from calibrate_led, by the target being
\* reached or by the budget running out, the relay of the LED under
\* calibration and the driver relay are off.
C18_RelaysOffOnReturn ==
    pc = "returned" => (~driver /\ ~leds[led_id])

\* ---------------------------------------------------------------------- C20
StatsCalled == pc = "helper" /\ stats # NoCall /\ stats.calls > 0
Regions == 1..Len(stats.patches)
RegionSum(i) == SeqSum(stats.patches[i])
RegionSize(i) == Len(stats.patches[i])
PooledMean == << SeqSum(Flatten(stats.patches)), Len(Flatten(stats.patches)) >>
\* k times the result is the sum of the region means, every region counted once.
EqualWeightMean(res) ==
    RatEq(<< res[1] * Len(stats.patches), res[2] >>,
          RatSum([ i \in Regions |-> << RegionSum(i), RegionSize(i) >> ]))
RegionsDiffer ==
    /\ Len(stats.patches) = 2
    /\ RegionSize(1) # RegionSize(2)
    /\ ~RatEq(<< RegionSum(1), RegionSize(1) >>, << RegionSum(2), RegionSize(2) >>)

ConfigErrorRaised == pc = "raised" /\ exc = "ValueError"

\* C11: when a region lies outside the validated frame, calibrate_led raises
\* the configuration error at that validation, having computed no statistics
\* and written no exposure; the run is not started again, and
\* calibrate_camera stops there: the LED and those after it get no baseline
\* and the Start button is left as it was.
C11_ConfigErrorStopsCalibration ==
    [][ /\ iteration_invalid_rois =>
              /\ ConfigErrorRaised'
              /\ run'.statsCalls = 0 /\ run'.expWrites = 0
              /\ camExposure' = camExposure /\ exp_us' = exp_us
        /\ ConfigErrorRaised =>
              /\ \A j \in led_id..3 : j \notin DOMAIN calibration_results
              /\ pc' # pc =>
                    /\ pc' = "idle"
                    /\ calibration_results' = calibration_results
                    /\ start_btn' = start_btn
      ]_vars

\* The first validated frame of the startup calibration is too small for the
\* regions: the error is raised before any baseline exists.
C11_Witness ==
    /\ ConfigErrorRaised
    /\ ~validate_rois(prog, frameShape)
    /\ led_id = 1
    /\ calibration_results = NoResults
    /\ start_btn = "disabled"

\* ---------------------------------------------------------------------- C17
\* The worker writes the exposure of its LED's baseline to the camera.
CaptureUsesBaseline ==
    /\ capture_thread.pc = "expose"
    /\ capture_thread'.pc = "capture"
    /\ capture_thread.i \in DOMAIN calibration_results

CaptureStep ==
    \/ on_start_capture \/ capture_set_exposure \/ capture_frame(AppFrames)
    \/ capture_check \/ capture_save \/ safe_capture_end

\* C17 (as claimed): calibration_results change only in calibrate_camera;
\* no capture uses a baseline produced before the latest reconnect or
\* recalibration; the capture flow never changes calibration_results.
C17_NoCaptureUsesOlderBaseline ==
    [][ /\ calibration_results' # calibration_results =>
              pc \in { "startup", "idle", "returned" }
        /\ CaptureStep => calibration_results' = calibration_results
        /\ CaptureUsesBaseline => capture_thread.i \notin stale
      ]_vars

\* ---------------------------------------------------------------------- C19
\* C19 (as claimed): a run of calibrate_led starts at the setpoint the camera
\* holds when it is called, which for the second and third LED is the
\* exposure the previous run returned, and the exposure a run returns is the
\* camera's setpoint at that moment.
C19_RunsContinueFromCameraSetpoint ==
    [][ /\ (pc = "enter" /\ pc' = "loop") =>
              /\ exp_us' = camExposure
              /\ (prog = "main" /\ led_id > 1) =>
                     exp_us' = calibration_results[led_id - 1].exposure_us
        /\ (pc = "loop" /\ pc' = "returned") => ret'[1] = camExposure'
      ]_vars

\* ---------------------------------------------------------------------- C21
\* A complete frame refused for its dynamic range alone.
RefusedForRangeOnly ==
    /\ last.kind = "adjusted"
    /\ WithinTolerance(last.Iw)
    /\ ~AtOrAboveSaturation(last.Iw)
    /\ ~EnoughRange(last.Iw, last.Ib)

LedsOn == { k \in LedIds : leds[k] }

\* C22 (as claimed): never two relays on.
C22_AtMostOneLedOn == Cardinality(LedsOn) <= 1

\* ---------------------------------------------------------------------------
\* C23: on every return of calibrate_led the returned means were measured on
\* a frame captured at the returned exposure: the baseline triple
\* (exposure, white mean, black mean) is self-consistent.
C23_ReturnedMeansMeasuredAtReturnedExposure ==
    pc = "returned" => ret[1] = run.measuredAt

\* ---------------------------------------------------------------------------
\* C24: calibrate_camera never runs while a capture sequence is in progress
\* (is_capturing true), so the two never work on the camera exposure, the
\* relays and calibration_results in overlapping intervals.
Calibrating == pc \in {"enter", "loop", "returned", "raised"}

\* C24 (as claimed): no calibration while is_capturing is true.
C24_NoCalibrationDuringCapture == ~(is_capturing /\ Calibrating)

\* ---------------------------------------------------------------------------
\* C25: every capture sequence eventually ends, whatever its outcome, and
\* afterwards is_capturing is false and the Start button is enabled again;
\* while is_capturing is true no manual LED test toggles a relay and no
\* reconnect brings the camera back.
CaptureRunning == capture_thread.pc \in { "expose", "capture", "check", "save", "ending" }

CaptureOver ==
    /\ capture_thread.pc = "done"
    /\ ~is_capturing
    /\ start_btn = "normal"

\* C25: a running sequence leads to one that is over with the GUI released,
\* and no step taken while is_capturing changes an LED test flag or turns
\* CAM_OK true.
C25_CaptureEndsAndReleasesGui ==
    /\ CaptureRunning ~> CaptureOver
    /\ [][ is_capturing => /\ led_test' = led_test
                           /\ CAM_OK' => CAM_OK ]_vars

\* A sequence that ended on a camera error has released the GUI.
C25_Witness == CaptureOver /\ ~CAM_OK /\ pc = "idle"

\* ---------------------------------------------------------------------------
\* C26: when capture_sequence ends, by completion or by an exception during
\* the exposure setting or the image capture, the three LED relays and the
\* driver are off.
\* Checked where it owes nothing to what ran before the sequence: on the step
\* by which an exception of the image capture ends the sequence, the relay of
\* the channel being captured and the driver are off.
C26_RelaysOffWhenCaptureEnds ==
    [][ (capture_thread.pc = "capture" /\ capture_thread'.pc = "ending") =>
            (~leds'[capture_thread.i] /\ ~driver') ]_vars

\* ---------------------------------------------------------------------------
\* C27: the calibrator and the quality gate agree: a frame that met the
\* success condition of calibrate_led, put to apply_qc_and_print against a
\* baseline of its own means, gets no Drift, Saturation or LowDynamicRange
\* warning; no white mean is both accepted and flagged saturated.
AcceptedAndChecked == pc = "returned" /\ last.kind = "target_reached" /\ qc.calls > 0

\* C27: an accepted frame checked against itself raises no level warning.
C27_AcceptedFrameRaisesNoLevelWarning ==
    AcceptedAndChecked =>
        Emitted \cap { "Drift", "Saturation", "LowDynamicRange" } = {}

\* An accepted frame at the upper edge of the tolerance whose range is
\* exactly DR_MIN has been checked.
C27_Witness ==
    /\ AcceptedAndChecked
    /\ qc.Iw = Milli(TARGET_WHITE + WHITE_TOL)
    /\ qc.Iw - qc.Ib = Milli(DR_MIN)
    /\ prog = "main"

\* ---------------------------------------------------------------------------
\* C28: once an acquisition failure has set CAM_OK false it stays false
\* until init_camera succeeds, and in between no frame is captured:
\* capture_image raises, on_start_capture starts no thread, calibrate_camera
\* runs no calibration.
\* A step of calibrate_led or of the worker in which capture_image returned:
\* the worker goes on with the frame, or after an incomplete one with the
\* next LED.
FrameObtained ==
    \/ /\ pc = "loop"
       /\ run'.captures = run.captures + 1
       /\ last'.kind # "capture_raised"
    \/ /\ capture_thread.pc = "capture"
       /\ capture_thread'.pc \in { "check", "expose" }
\* A capture_sequence thread is started.
ThreadStarted ==
    \/ ~is_capturing /\ is_capturing'
    \/ capture_thread.pc \in { "none", "done" } /\ capture_thread'.pc = "expose"
\* The GUI thread enters the calibration of the first LED.
CalibrationBegun == pc \in { "startup", "idle" } /\ pc' = "enter"
\* init_camera has run on the GUI thread and succeeded.
CameraInitialised ==
    /\ pc \in { "startup", "idle" }
    /\ camExposure' = InitExposure(prog)
    /\ capture_thread' = capture_thread

C29_StartEnabledOnlyWithAllBaselines ==
    (pc = "idle" /\ start_btn = "normal") => DOMAIN calibration_results = LedIds

\* ---------------------------------------------------------------------------
\* The worker's capture_image returns a complete frame.
FrameTaken == capture_thread.pc = "capture" /\ capture_thread'.pc = "check"
\* The worker puts its frame to apply_qc_and_print.
FrameChecked == capture_thread.pc = "check" /\ capture_thread'.pc = "save"
HasBaseline == capture_thread.i \in DOMAIN calibration_results

\* C30: in capture_sequence every frame of a channel that has a baseline is
\* taken with the camera's exposure equal to the baseline's exposure_us and
\* is checked against the baseline's white mean; a frame of a channel without
\* a baseline is checked against its own means and gets no Drift warning.
C30_CaptureFollowsBaseline ==
    [][ /\ (FrameTaken /\ HasBaseline) =>
              camExposure = calibration_results[capture_thread.i].exposure_us
        /\ (FrameChecked /\ HasBaseline) =>
              capture_thread'.cal_Iw =
                  100 * calibration_results[capture_thread.i].I_white
        /\ (FrameChecked /\ ~HasBaseline) =>
              /\ capture_thread'.cal_Iw = 100 * capture_thread.frame[1]
              /\ ~capture_thread'.drift
      ]_vars

====
